---- MODULE Spec2Model ----
(***************************************************************************)
(* State-machine model of the news ingestion crawlers of the CLIR          *)
(* repository (Module_A/news_crawler/news_crawler/spiders):                *)
(*   - NewAgeBDCrawler     (asyncio, sitemap enumeration, concurrent tasks)*)
(*   - DailySunCrawler     (sequential, landing page + AJAX "load more")   *)
(*   - KalerKanthoCrawler  (sequential, build-scoped data endpoint)        *)
(*   - ProthomAloBangladeshSpider (scrapy callbacks, offset/limit API)     *)
(* together with one call of NewAgeBDCrawler.fetch_url seen request by     *)
(* request, and one call of build_index (Module A/indexing), the consumer  *)
(* of the crawlers' output files.                                          *)
(* One run executes one program; `prog` records which one.  Every HTTP     *)
(* exchange is a step whose outcome is chosen by the environment.          *)
(***************************************************************************)
EXTENDS Integers, Sequences, FiniteSets, TLC

VARIABLES
    prog,                 \* which program was launched
    \* ---- NewAgeBDCrawler
    na_target_count,      \* self.target_count
    na_phase,             \* position of crawl(): "sitemaps" | "queue" | "gather" | "done"
    na_sitemap_idx,       \* index of the next sitemap of self.sitemaps to fetch
    na_sitemap_log,       \* while the sitemap loop runs: did each fetch so far return content
    na_all_candidates,    \* all_candidates: category -> list of urls
    na_tasks,             \* tasks: list of (url, category) coroutines
    na_pc,                \* per task: position inside process_article / fetch_url
    na_try,               \* per task: loop variable i of fetch_url
    na_collected_counts,  \* self.collected_counts
    na_visited_urls,      \* self.visited_urls
    na_lock,              \* self.lock: 0 when free, else the task that holds it
    na_file,              \* lines of self.output_file (one record per line)
    na_flushed,           \* how many of these lines have reached the file (it is closed after each)
    na_prior,             \* output_file as an earlier run left it: "absent" | "present" | "removed"
    \* ---- DailySunCrawler
    ds_target_count,      \* self.target_count
    ds_collected_count,   \* self.collected_count
    ds_pc,                \* position of crawl()
    ds_cat,               \* index into self.category_urls of the for loop
    ds_cat_id,            \* cat_id of get_category_metadata
    ds_last_id,           \* last_id (the lastID cursor of the AJAX url)
    ds_category_collected,\* category_collected
    ds_page,              \* page
    ds_seen_urls,         \* seen_urls
    ds_left,              \* links / items of the current page not yet iterated
    ds_has_new,           \* has_new
    ds_cur,               \* full_url of the article being fetched
    ds_returned,          \* urls the source has returned so far in this category run
    ds_batch_new,         \* the last AJAX batch held a url not returned before it
    ds_exhausted,         \* index of the last category whose list call gave no items (0: none)
    ds_file,              \* lines written to self.output_file
    ds_flushed,           \* how many of these lines have been flushed
    ds_prior,             \* records of an earlier run in output_file: "absent" | "present" | "removed"
    \* ---- KalerKanthoCrawler
    kk_target_count,      \* self.target_count
    kk_collected_count,   \* self.collected_count
    kk_build_id,          \* self.build_id
    kk_pc,                \* position of crawl()
    kk_cat,               \* index into categories of the for loop
    kk_category_collected,\* category_collected
    kk_page,              \* page
    kk_left,              \* items of news_list not yet iterated
    kk_cur,               \* n_id of the article being fetched
    kk_exhausted,         \* index of the last category whose list call gave no items (0: none)
    kk_file,              \* lines written to self.output_file
    kk_flushed,           \* how many of these lines have left the write buffer of f
    kk_prior,             \* records of an earlier run in output_file: "absent" | "present" | "removed"
    \* ---- ProthomAloBangladeshSpider
    pa_started,           \* the response of start_urls[0] has been handled
    pa_offset,            \* self.offset
    pa_items_seen,        \* self.items_seen
    pa_api,               \* offsets of the API list requests that are outstanding
    pa_articles,          \* urls of the article requests that are outstanding
    pa_dupes,             \* article urls the scheduler's duplicate filter has seen
    pa_exhausted,         \* an API list response came back without items
    pa_feed,              \* items yielded to the feed, in order
    \* ---- NewAgeBDCrawler.fetch_url, one logical fetch seen request by request
    fu_pc,                \* "get" (a session.get is in flight) | "sleep" | "text" | "none"
    fu_i,                 \* loop variable i
    fu_requests,          \* number of session.get calls made so far
    fu_responses,         \* outcomes of the requests so far, in order
    fu_sleeps,            \* asyncio.sleep calls made so far, in order
    \* ---- build_index (indexing/build_index.py), one call
    bi_language,          \* language
    bi_corpus,            \* the lines of the file at corpus_path
    bi_line_no,           \* line_no: lines of the file consumed so far
    bi_pc,                \* "reading" | "done" (returned) | "aborted" (an exception left build_index)
    bi_total_docs,        \* total_docs
    bi_skipped_lines,     \* skipped_lines
    bi_doc_lengths,       \* doc_lengths: doc_id -> number of tokens
    bi_inverted_index,    \* inverted_index: term -> (doc_id -> frequency)
    bi_stats              \* stats, once build_index has returned

na_vars == <<na_target_count, na_phase, na_sitemap_idx, na_sitemap_log, na_all_candidates, na_tasks,
             na_pc, na_try, na_collected_counts, na_visited_urls, na_lock, na_file,
             na_flushed, na_prior>>

ds_vars == <<ds_target_count, ds_collected_count, ds_pc, ds_cat, ds_cat_id, ds_last_id,
             ds_category_collected, ds_page, ds_seen_urls, ds_left, ds_has_new, ds_cur,
             ds_returned, ds_batch_new, ds_exhausted, ds_file, ds_flushed, ds_prior>>

kk_vars == <<kk_target_count, kk_collected_count, kk_build_id, kk_pc, kk_cat,
             kk_category_collected, kk_page, kk_left, kk_cur, kk_exhausted, kk_file,
             kk_flushed, kk_prior>>

pa_vars == <<pa_started, pa_offset, pa_items_seen, pa_api, pa_articles, pa_dupes,
             pa_exhausted, pa_feed>>

fu_vars == <<fu_pc, fu_i, fu_requests, fu_responses, fu_sleeps>>

bi_vars == <<bi_language, bi_corpus, bi_line_no, bi_pc, bi_total_docs, bi_skipped_lines,
             bi_doc_lengths, bi_inverted_index, bi_stats>>

vars == <<prog, na_vars, ds_vars, kk_vars, pa_vars, fu_vars, bi_vars>>

----------------------------------------------------------------------------
(* Bounds of the model *)

MaxTarget == 2          \* target_count given to a constructor ranges over 0..MaxTarget
NumSitemaps == 2        \* length of self.sitemaps (23 in the source)
MaxCandidates == 3      \* total number of <loc> entries over all sitemaps
MaxBatch == 2           \* links on a landing page / items in one list response
MaxPage == 2            \* list pages a source serves before it runs empty
category_target == 2    \* KalerKanthoCrawler.crawl, line 144 (150 in the source), scaled
limit == 2              \* ProthomAloBangladeshSpider.limit, line 24 (10 in the source), scaled
max_items == 3          \* ProthomAloBangladeshSpider.max_items, line 25 (500 in the source), scaled
BufferLines == 2        \* lines (taken to be of one size) that fit into the write buffer of a file
MaxLines == 3           \* lines of a corpus file

Min(a, b) == IF a < b THEN a ELSE b

\* what an earlier run may have left at the output path; a run over an
\* earlier output is modelled for target_count = 1
Priors(rerun) == IF rerun THEN {"absent", "present"} ELSE {"absent"}

\* open(self.output_file, 'w'), and os.remove of an existing file: records of
\* an earlier run are gone
Truncate(prior) == IF prior = "present" THEN "removed" ELSE prior

RECURSIVE SelectCat(_, _)
RECURSIVE PAEntries(_, _)
RECURSIVE JsonEscape(_)
RECURSIVE JsonUnescape(_)
RECURSIVE strip_left(_)
RECURSIVE SplitFrom(_, _)
RECURSIVE Sum(_, _)

----------------------------------------------------------------------------
(* NewAgeBDCrawler *)

\* self.target_categories (the model keeps two of the four defaults)
NACategories == <<"banking", "politics">>
NACatSet == {NACategories[i] : i \in 1..Len(NACategories)}

\* <loc> urls a sitemap can list; "x" is a url outside every target category
NALocs == {"b1", "b2", "p1", "x"}

\* parse_sitemap, lines 82-85: the first target category whose "/post/<cat>/"
\* segment occurs in the url, or "none"
NALocCategory(u) ==
    CASE u \in {"b1", "b2"} -> "banking"
      [] u = "p1" -> "politics"
      [] OTHER -> "none"

\* parse_sitemap, lines 75-90: the urls of one sitemap that belong to cat, in order
SelectCat(locs, cat) ==
    IF locs = <<>> THEN <<>>
    ELSE IF NALocCategory(Head(locs)) = cat
         THEN <<Head(locs)>> \o SelectCat(Tail(locs), cat)
         ELSE SelectCat(Tail(locs), cat)

\* fetch_url, line 45
retries == 3

NATaskIds == 1..Len(na_tasks)
NADonePcs == {"early", "dup", "failed", "rejected", "saved", "discarded"}
NATotalCandidates ==
    Len(na_all_candidates["banking"]) + Len(na_all_candidates["politics"])

NAInit(active) ==
    /\ na_target_count \in (IF active THEN 0..MaxTarget ELSE {0})
    /\ na_phase = "start"
    /\ na_sitemap_idx = 1
    /\ na_sitemap_log = <<>>
    /\ na_all_candidates = [c \in NACatSet |-> <<>>]
    /\ na_tasks = <<>>
    /\ na_pc = <<>>
    /\ na_try = <<>>
    /\ na_collected_counts = [c \in NACatSet |-> 0]
    /\ na_visited_urls = {}
    /\ na_lock = 0
    /\ na_file = <<>>
    /\ na_flushed = 0
    /\ na_prior \in Priors(active /\ na_target_count = 1)

\* crawl, lines 185-196: an output file left by an earlier run is removed, the
\* session is opened and the first sitemap is requested
NARemoveOutput ==
    /\ prog = "NA"
    /\ na_phase = "start"
    /\ na_prior' = Truncate(na_prior)
    /\ na_phase' = "sitemaps"
    /\ UNCHANGED <<prog, bi_vars, fu_vars, ds_vars, kk_vars, pa_vars, na_target_count, na_sitemap_idx,
                   na_all_candidates, na_tasks, na_pc, na_try, na_collected_counts,
                   na_visited_urls, na_file, na_flushed>>
    /\ UNCHANGED na_sitemap_log
    /\ UNCHANGED na_lock

\* crawl, lines 198-201 with parse_sitemap: one sitemap is fetched; a failed fetch
\* (content = "none") contributes {} and the loop goes on
NASitemapLocs(n) == UNION {[1..k -> NALocs] : k \in 0..n}

\* the for loop of line 198 left at the first sitemap whose fetch fails
NASitemapsLeftUnlessFailed(idx, ok) == ok /\ idx < NumSitemaps

\* crawl, line 198: `for sm in self.sitemaps` has a sitemap left after this one
NASitemapsLeft(idx, ok) == idx < NumSitemaps

NAParseSitemap(ok, locs) ==
    /\ prog = "NA"
    /\ na_phase = "sitemaps"
    /\ na_sitemap_idx <= NumSitemaps
    /\ na_all_candidates' =
          IF ok
          THEN [c \in NACatSet |-> na_all_candidates[c] \o SelectCat(locs, c)]
          ELSE na_all_candidates
    /\ na_sitemap_idx' = na_sitemap_idx + 1
    /\ na_sitemap_log' = Append(na_sitemap_log, ok)
    /\ na_phase' = IF NASitemapsLeft(na_sitemap_idx, ok) THEN "sitemaps" ELSE "queue"
    /\ UNCHANGED <<prog, bi_vars, fu_vars, ds_vars, kk_vars, pa_vars, na_target_count, na_tasks, na_pc, na_try,
                   na_collected_counts, na_visited_urls, na_file>>
    /\ UNCHANGED <<na_flushed, na_prior>>
    /\ UNCHANGED na_lock

\* crawl, lines 204-221: one process_article coroutine per candidate, in
\* category order; as_completed schedules all of them
NATasksOf(cat) ==
    [i \in 1..Len(na_all_candidates[cat]) |->
        [url |-> na_all_candidates[cat][i], category |-> cat, body |-> "text"]]

NAQueueTasks ==
    /\ prog = "NA"
    /\ na_phase = "queue"
    /\ na_tasks' = NATasksOf(NACategories[1]) \o NATasksOf(NACategories[2])
    /\ na_pc' = [i \in 1..NATotalCandidates |-> "new"]
    /\ na_try' = [i \in 1..NATotalCandidates |-> 0]
    /\ na_phase' = "gather"
    /\ na_sitemap_log' = <<>>
    /\ UNCHANGED <<prog, bi_vars, fu_vars, ds_vars, kk_vars, pa_vars, na_target_count, na_sitemap_idx, na_all_candidates,
                   na_collected_counts, na_visited_urls, na_file>>
    /\ UNCHANGED <<na_flushed, na_prior>>
    /\ UNCHANGED na_lock

\* process_article, line 156: the early cap check
NACapReached(c) == na_collected_counts[c] >= na_target_count

\* the dedup test of line 160 with the membership test lost
NAVisitedNever(u) == FALSE

\* process_article, line 160: the dedup test made under the lock
NAVisited(u) == u \in na_visited_urls

\* `async with self.lock` left without releasing the lock
NALockKept(lock) == lock

\* process_article, lines 160 and 169: `async with self.lock` is entered by
\* task t.  acquire() returns at once when the lock is free; a task that
\* finds it held waits for the release
NALockFree(lock) == lock = 0
NALockAcquire(lock, t) == t

\* process_article, lines 161-163 and 170-179: the `async with` block is left,
\* by the return of line 162 or at its end, and the lock is released
NALockRelease(lock) == 0

\* process_article, lines 154-164, up to the first suspension: early cap check,
\* dedup under the lock (no await inside, so the section is atomic), then the
\* call of fetch_url, whose first session.get starts the detail request
NAStart(t) ==
    /\ prog = "NA"
    /\ na_phase = "gather"
    /\ t \in NATaskIds
    /\ na_pc[t] = "new"
    /\ IF NACapReached(na_tasks[t].category)
       THEN /\ na_pc' = [na_pc EXCEPT ![t] = "early"]
            /\ UNCHANGED <<na_visited_urls, na_lock>>
       ELSE /\ NALockFree(na_lock)
            /\ na_lock' = NALockRelease(NALockAcquire(na_lock, t))
            /\ IF NAVisited(na_tasks[t].url)
               THEN /\ na_pc' = [na_pc EXCEPT ![t] = "dup"]
                    /\ UNCHANGED na_visited_urls
               ELSE /\ na_pc' = [na_pc EXCEPT ![t] = "request"]
                    /\ na_visited_urls' = na_visited_urls \cup {na_tasks[t].url}
    /\ UNCHANGED <<prog, bi_vars, fu_vars, ds_vars, kk_vars, pa_vars, na_target_count, na_phase, na_sitemap_idx, na_all_candidates,
                   na_tasks, na_try, na_collected_counts, na_file>>
    /\ UNCHANGED <<na_flushed, na_prior>>
    /\ UNCHANGED na_sitemap_log

\* the cap check of line 170 off by one
NAUnderCapOffByOne(c) == na_collected_counts[c] <= na_target_count

\* process_article, line 170: the cap check made under the lock when a document lands
NAUnderCap(c) == na_collected_counts[c] < na_target_count

\* save_document called before the cap check of line 170 instead of under it
NASaveDocumentUnguarded(doc, under) == Append(na_file, doc)

\* save_document, lines 181-183, guarded by line 170
NASaveDocument(doc, under) == IF under THEN Append(na_file, doc) ELSE na_file

\* parse_article returning a document for every payload with a title, the
\* length test of line 131 dropped
NAParseArticleAny(o) == <<[body |-> IF o = "doc" THEN "text" ELSE "short"]>>

\* parse_article, lines 92-152: None for the home-page title (lines 100-102),
\* for a body that is empty or shorter than 100 characters (lines 131-133)
\* and for any exception (lines 150-152); otherwise the document, whose body
\* is the extracted text.  The result is <<>> for None and <<doc>> otherwise.
NAParseArticle(o) == IF o = "doc" THEN <<[body |-> "text"]>> ELSE <<>>

\* process_article, lines 165-174: the fetch returned html and parse_article
\* returned the document doc; accept-and-persist under the lock
NALand(t, doc) ==
    LET c == na_tasks[t].category
        under == NAUnderCap(c)
    IN /\ NALockFree(na_lock)
       /\ na_lock' = NALockRelease(NALockAcquire(na_lock, t))
       /\ na_file' = NASaveDocument([na_tasks[t] EXCEPT !.body = doc.body], under)
       /\ na_collected_counts' =
             IF under THEN [na_collected_counts EXCEPT ![c] = @ + 1]
             ELSE na_collected_counts
       /\ na_pc' = [na_pc EXCEPT ![t] = IF under THEN "saved" ELSE "discarded"]
       /\ na_flushed' = Len(na_file')

\* fetch_url, lines 47-63, one response of the request in flight:
\*   "doc"    200 with html from which parse_article builds a document
\*   "nodoc"  200 with html that parse_article rejects (lines 100-102, 131-133, 150-152)
\*   "empty"  200 with an empty text (line 165 is false)
\*   "429"    status 429: sleep Retry-After, continue (lines 51-55)
\*   "error"  timeout, network error or raise_for_status (lines 59-63)
NAOutcomes == {"doc", "nodoc", "empty", "429", "error"}

NAResponse(t, o) ==
    /\ prog = "NA"
    /\ t \in NATaskIds
    /\ na_pc[t] = "request"
    /\ CASE o \in {"doc", "nodoc"} ->
              IF NAParseArticle(o) # <<>>
              THEN NALand(t, NAParseArticle(o)[1])
              ELSE /\ na_pc' = [na_pc EXCEPT ![t] = "rejected"]
                   /\ UNCHANGED <<na_file, na_flushed, na_collected_counts, na_lock>>
         [] o = "empty" ->
              /\ na_pc' = [na_pc EXCEPT ![t] = "failed"]
              /\ UNCHANGED <<na_file, na_flushed, na_collected_counts, na_lock>>
         [] o = "429" ->
              /\ na_pc' = [na_pc EXCEPT ![t] = "sleep"]
              /\ UNCHANGED <<na_file, na_flushed, na_collected_counts, na_lock>>
         [] o = "error" ->
              /\ na_pc' = [na_pc EXCEPT ![t] =
                              IF na_try[t] = retries - 1 THEN "failed" ELSE "sleep"]
              /\ UNCHANGED <<na_file, na_flushed, na_collected_counts, na_lock>>
    /\ UNCHANGED <<prog, bi_vars, fu_vars, ds_vars, kk_vars, pa_vars, na_target_count, na_phase, na_sitemap_idx, na_all_candidates,
                   na_tasks, na_try, na_visited_urls, na_prior>>
    /\ UNCHANGED na_sitemap_log

\* fetch_url, lines 47, 54-55, 63: the sleep ends; the next iteration of the
\* for loop starts a new request, or the loop is over and None is returned
NAWake(t) ==
    /\ prog = "NA"
    /\ t \in NATaskIds
    /\ na_pc[t] = "sleep"
    /\ IF na_try[t] + 1 < retries
       THEN /\ na_try' = [na_try EXCEPT ![t] = @ + 1]
            /\ na_pc' = [na_pc EXCEPT ![t] = "request"]
       ELSE /\ na_pc' = [na_pc EXCEPT ![t] = "failed"]
            /\ UNCHANGED na_try
    /\ UNCHANGED <<prog, bi_vars, fu_vars, ds_vars, kk_vars, pa_vars, na_target_count, na_phase, na_sitemap_idx, na_all_candidates,
                   na_tasks, na_collected_counts, na_visited_urls, na_file>>
    /\ UNCHANGED <<na_flushed, na_prior>>
    /\ UNCHANGED na_sitemap_log
    /\ UNCHANGED na_lock

\* crawl, lines 221-224: every task has completed
NAFinish ==
    /\ prog = "NA"
    /\ na_phase = "gather"
    /\ \A t \in NATaskIds : na_pc[t] \in NADonePcs
    /\ na_phase' = "done"
    /\ UNCHANGED <<prog, bi_vars, fu_vars, ds_vars, kk_vars, pa_vars, na_target_count, na_sitemap_idx, na_all_candidates, na_tasks,
                   na_pc, na_try, na_collected_counts, na_visited_urls, na_file>>
    /\ UNCHANGED <<na_flushed, na_prior>>
    /\ UNCHANGED na_sitemap_log
    /\ UNCHANGED na_lock

NANext ==
    \/ NARemoveOutput
    \/ \E ok \in BOOLEAN :
         \E locs \in NASitemapLocs(IF ok THEN MaxCandidates - NATotalCandidates ELSE 0) :
            NAParseSitemap(ok, locs)
    \/ NAQueueTasks
    \/ \E t \in 1..MaxCandidates : NAStart(t)
    \/ \E t \in 1..MaxCandidates : \E o \in NAOutcomes : NAResponse(t, o)
    \/ \E t \in 1..MaxCandidates : NAWake(t)
    \/ NAFinish


----------------------------------------------------------------------------
(* DailySunCrawler *)

\* self.category_urls, lines 29-36 (the model keeps two of the six), as slugs
DSCategories == <<"sports", "business">>

\* article urls the site can serve, and the category slug in their path
DSUrls == {"s1", "s2", "b7"}
DSSlug(u) == IF u \in {"s1", "s2"} THEN "sports" ELSE "business"

\* extract_id_from_url, lines 85-88
extract_id_from_url(u) == CASE u = "s1" -> "1" [] u = "s2" -> "2" [] OTHER -> "7"

\* hrefs of a landing page: article urls and "nav", a link that is no article
DSHrefs == DSUrls \cup {"nav"}
\* 'url' of an AJAX item: an article url, or "nourl" when the field is missing
DSItemUrls == DSUrls \cup {"nourl"}

\* crawl, line 176: the href filter of the landing page
DSIsCategoryLink(href, slug) == href \in DSUrls /\ DSSlug(href) = slug

DSInit(active) ==
    /\ ds_target_count \in (IF active THEN 0..MaxTarget ELSE {0})
    /\ ds_collected_count = 0
    /\ ds_pc = "start"
    /\ ds_cat = 1
    /\ ds_cat_id = "None"
    /\ ds_last_id = "None"
    /\ ds_category_collected = 0
    /\ ds_page = 1
    /\ ds_seen_urls = {}
    /\ ds_left = 0
    /\ ds_has_new = FALSE
    /\ ds_cur = "none"
    /\ ds_returned = {}
    /\ ds_batch_new = FALSE
    /\ ds_exhausted = 0
    /\ ds_file = <<>>
    /\ ds_flushed = 0
    /\ ds_prior \in Priors(active /\ ds_target_count = 1)

\* crawl, lines 134-141: the output file is opened with mode 'w' and the
\* discovery fetch of the first category is made
DSOpenOutput ==
    /\ prog = "DS"
    /\ ds_pc = "start"
    /\ ds_prior' = Truncate(ds_prior)
    /\ ds_pc' = "discover"
    /\ UNCHANGED <<prog, bi_vars, fu_vars, na_vars, kk_vars, pa_vars, ds_target_count, ds_collected_count,
                   ds_cat, ds_cat_id, ds_last_id, ds_category_collected, ds_page,
                   ds_seen_urls, ds_left, ds_has_new, ds_cur, ds_returned, ds_batch_new,
                   ds_exhausted, ds_file, ds_flushed>>

\* crawl, line 137: the for loop moves to the next category url, or ends
DSNextCategory ==
    /\ ds_cat' = ds_cat + 1
    /\ ds_pc' = IF ds_cat = Len(DSCategories) THEN "done" ELSE "discover"

\* crawl, lines 138-158 with get_category_metadata, lines 68-83.  meta is what
\* the discovery fetch yields: "fail" (no content), "noid" (no categorynews
\* pattern), "id" (cat_id without lastID), "id+cursor" (cat_id and lastID)
DSDiscover(meta) ==
    /\ prog = "DS"
    /\ ds_pc = "discover"
    /\ IF meta \in {"fail", "noid"}
       THEN /\ DSNextCategory
            /\ UNCHANGED <<ds_cat_id, ds_last_id, ds_category_collected, ds_page>>
       ELSE /\ ds_cat_id' = "id"
            /\ ds_last_id' = IF meta = "id+cursor" THEN "cursor" ELSE "None"
            /\ ds_category_collected' = 0
            /\ ds_page' = 1
            /\ ds_pc' = "landing"
            /\ UNCHANGED ds_cat
    /\ UNCHANGED <<prog, bi_vars, fu_vars, na_vars, kk_vars, pa_vars, ds_target_count, ds_collected_count, ds_seen_urls,
                   ds_left, ds_has_new, ds_cur, ds_returned, ds_batch_new, ds_file>>
    /\ UNCHANGED ds_exhausted
    /\ UNCHANGED <<ds_flushed, ds_prior>>

\* crawl, lines 165-174: the second fetch of the landing page.  fetch_url
\* returning None makes BeautifulSoup(None, ...) raise; nothing catches it
DSLanding(ok, n) ==
    /\ prog = "DS"
    /\ ds_pc = "landing"
    /\ IF ok
       THEN /\ ds_pc' = "landing_iter"
            /\ ds_left' = n
       ELSE /\ ds_pc' = "crashed"
            /\ UNCHANGED ds_left
    /\ ds_seen_urls' = IF ok THEN {} ELSE ds_seen_urls
    /\ ds_returned' = {}
    /\ UNCHANGED <<prog, bi_vars, fu_vars, na_vars, kk_vars, pa_vars, ds_target_count, ds_collected_count, ds_cat, ds_cat_id,
                   ds_last_id, ds_category_collected, ds_page, ds_has_new, ds_cur,
                   ds_batch_new, ds_file>>
    /\ UNCHANGED ds_exhausted
    /\ UNCHANGED <<ds_flushed, ds_prior>>

\* the cap test of lines 179, 202 and 230 off by one
DSCapReachedOffByOne == ds_category_collected > ds_target_count

\* crawl, lines 179, 202 and 230: the cap test made before a detail fetch and
\* before a list call
DSCapReached == ds_category_collected >= ds_target_count

\* crawl, lines 174-184: the next <a href> of the landing page
DSLandingLink(href) ==
    /\ prog = "DS"
    /\ ds_pc = "landing_iter"
    /\ ds_left > 0
    /\ IF DSIsCategoryLink(href, DSCategories[ds_cat]) /\ href \notin ds_seen_urls
       THEN IF DSCapReached
            THEN /\ ds_pc' = "ajax_check"
                 /\ UNCHANGED <<ds_left, ds_cur, ds_returned>>
            ELSE /\ ds_pc' = "landing_detail"
                 /\ ds_cur' = href
                 /\ ds_returned' = ds_returned \cup {href}
                 /\ UNCHANGED ds_left
       ELSE /\ ds_left' = ds_left - 1
            /\ ds_returned' = IF DSIsCategoryLink(href, DSCategories[ds_cat])
                              THEN ds_returned \cup {href} ELSE ds_returned
            /\ UNCHANGED <<ds_pc, ds_cur>>
    /\ UNCHANGED <<prog, bi_vars, fu_vars, na_vars, kk_vars, pa_vars, ds_target_count, ds_collected_count, ds_cat, ds_cat_id,
                   ds_last_id, ds_category_collected, ds_page, ds_seen_urls, ds_has_new,
                   ds_batch_new, ds_file>>
    /\ UNCHANGED ds_exhausted
    /\ UNCHANGED <<ds_flushed, ds_prior>>

\* crawl, lines 174-196: the landing page has no link left
DSLandingEnd ==
    /\ prog = "DS"
    /\ ds_pc = "landing_iter"
    /\ ds_left = 0
    /\ ds_pc' = "ajax_check"
    /\ UNCHANGED <<prog, bi_vars, fu_vars, na_vars, kk_vars, pa_vars, ds_target_count, ds_collected_count, ds_cat, ds_cat_id,
                   ds_last_id, ds_category_collected, ds_page, ds_seen_urls, ds_left,
                   ds_has_new, ds_cur, ds_returned, ds_batch_new, ds_file>>
    /\ UNCHANGED ds_exhausted
    /\ UNCHANGED <<ds_flushed, ds_prior>>

\* fetch_article, lines 90-132, as seen by crawl: "fail" (fetch_url gave
\* nothing, None is returned), "nobody" (a record whose body is ""), "ok"
DSArticleOutcomes == {"fail", "nobody", "ok"}

\* crawl, lines 185 and 245: the acceptance test of a fetched article
DSAccepted(o) == o = "ok"

\* crawl, lines 186-190 and 246-250: write, flush, count, remember
DSPersist(accepted) ==
    /\ ds_file' = IF accepted
                  THEN Append(ds_file, [url |-> ds_cur,
                                        category |-> DSCategories[ds_cat],
                                        body |-> "text"])
                  ELSE ds_file
    /\ ds_category_collected' = IF accepted THEN ds_category_collected + 1
                                            ELSE ds_category_collected
    /\ ds_collected_count' = IF accepted THEN ds_collected_count + 1
                                         ELSE ds_collected_count
    /\ ds_seen_urls' = IF accepted THEN ds_seen_urls \cup {ds_cur} ELSE ds_seen_urls
    /\ ds_flushed' = Len(ds_file')

\* crawl, lines 184-194: the detail fetch of a landing-page link returns
DSLandingDetail(o) ==
    /\ prog = "DS"
    /\ ds_pc = "landing_detail"
    /\ DSPersist(DSAccepted(o))
    /\ ds_last_id' = IF DSAccepted(o) THEN extract_id_from_url(ds_cur) ELSE ds_last_id
    /\ ds_pc' = "landing_iter"
    /\ ds_left' = ds_left - 1
    /\ ds_cur' = "none"
    /\ UNCHANGED <<prog, bi_vars, fu_vars, na_vars, kk_vars, pa_vars, ds_target_count, ds_cat, ds_cat_id, ds_page, ds_has_new,
                   ds_returned, ds_batch_new>>
    /\ UNCHANGED ds_exhausted
    /\ UNCHANGED ds_prior

\* crawl, line 202: the while test; when it holds the AJAX list request of
\* lines 205-209 for page ds_page is issued
DSAjaxCheck ==
    /\ prog = "DS"
    /\ ds_pc = "ajax_check"
    /\ IF ~DSCapReached
       THEN /\ ds_pc' = "ajax_wait"
            /\ UNCHANGED ds_cat
       ELSE DSNextCategory
    /\ UNCHANGED <<prog, bi_vars, fu_vars, na_vars, kk_vars, pa_vars, ds_target_count, ds_collected_count, ds_cat_id,
                   ds_last_id, ds_category_collected, ds_page, ds_seen_urls, ds_left,
                   ds_has_new, ds_cur, ds_returned, ds_batch_new, ds_file>>
    /\ UNCHANGED ds_exhausted
    /\ UNCHANGED <<ds_flushed, ds_prior>>

\* crawl, lines 209-228 and 265-267: the response of the list call.  kind:
\*   "none" (empty response), "badjson", "empty" (json that is falsy),
\*   "nonlist" (json whose elements have no .get: the except of line 265 breaks),
\*   "list" (a list of n >= 1 objects)
DSAjaxKinds == {"none", "badjson", "empty", "nonlist", "list"}

\* crawl, lines 210-223 and 265-267: the responses on which the loop breaks
DSListEnds(kind) == kind # "list"

DSAjaxResponse(kind, n) ==
    /\ prog = "DS"
    /\ ds_pc = "ajax_wait"
    /\ kind = "list" => ds_page <= MaxPage
    /\ IF DSListEnds(kind)
       THEN /\ DSNextCategory
            /\ UNCHANGED <<ds_left, ds_has_new, ds_batch_new>>
       ELSE /\ ds_pc' = "ajax_iter"
            /\ ds_left' = n
            /\ ds_has_new' = FALSE
            /\ ds_batch_new' = FALSE
            /\ UNCHANGED ds_cat
    /\ ds_exhausted' = IF kind = "list" THEN ds_exhausted ELSE ds_cat
    /\ UNCHANGED <<prog, bi_vars, fu_vars, na_vars, kk_vars, pa_vars, ds_target_count, ds_collected_count, ds_cat_id,
                   ds_last_id, ds_category_collected, ds_page, ds_seen_urls, ds_cur,
                   ds_returned, ds_file>>
    /\ UNCHANGED <<ds_flushed, ds_prior>>

\* crawl, lines 229-244: the next item of the batch
DSAjaxItem(u) ==
    /\ prog = "DS"
    /\ ds_pc = "ajax_iter"
    /\ ds_left > 0
    /\ IF DSCapReached
       THEN /\ ds_pc' = "ajax_end"
            /\ UNCHANGED <<ds_left, ds_has_new, ds_cur, ds_returned, ds_batch_new>>
       ELSE IF u = "nourl"
       THEN /\ ds_left' = ds_left - 1
            /\ UNCHANGED <<ds_pc, ds_has_new, ds_cur, ds_returned, ds_batch_new>>
       ELSE /\ ds_returned' = ds_returned \cup {u}
            /\ ds_batch_new' = (ds_batch_new \/ u \notin ds_returned)
            /\ IF u \in ds_seen_urls
               THEN /\ ds_left' = ds_left - 1
                    /\ UNCHANGED <<ds_pc, ds_has_new, ds_cur>>
               ELSE /\ ds_has_new' = TRUE
                    /\ ds_pc' = "ajax_detail"
                    /\ ds_cur' = u
                    /\ UNCHANGED ds_left
    /\ UNCHANGED <<prog, bi_vars, fu_vars, na_vars, kk_vars, pa_vars, ds_target_count, ds_collected_count, ds_cat, ds_cat_id,
                   ds_last_id, ds_category_collected, ds_page, ds_seen_urls, ds_file>>
    /\ UNCHANGED ds_exhausted
    /\ UNCHANGED <<ds_flushed, ds_prior>>

\* crawl, lines 244-259: the detail fetch of an AJAX item returns
DSAjaxDetail(o) ==
    /\ prog = "DS"
    /\ ds_pc = "ajax_detail"
    /\ DSPersist(DSAccepted(o))
    /\ ds_pc' = "ajax_iter"
    /\ ds_left' = ds_left - 1
    /\ ds_cur' = "none"
    /\ UNCHANGED <<prog, bi_vars, fu_vars, na_vars, kk_vars, pa_vars, ds_target_count, ds_cat, ds_cat_id, ds_last_id, ds_page,
                   ds_has_new, ds_returned, ds_batch_new>>
    /\ UNCHANGED ds_exhausted
    /\ UNCHANGED ds_prior

\* crawl, line 229: the batch has no item left
DSAjaxItemsDone ==
    /\ prog = "DS"
    /\ ds_pc = "ajax_iter"
    /\ ds_left = 0
    /\ ds_pc' = "ajax_end"
    /\ UNCHANGED <<prog, bi_vars, fu_vars, na_vars, kk_vars, pa_vars, ds_target_count, ds_collected_count, ds_cat, ds_cat_id,
                   ds_last_id, ds_category_collected, ds_page, ds_seen_urls, ds_left,
                   ds_has_new, ds_cur, ds_returned, ds_batch_new, ds_file>>
    /\ UNCHANGED ds_exhausted
    /\ UNCHANGED <<ds_flushed, ds_prior>>

\* crawl, lines 261-270: after the for loop, stop on a batch without new
\* items, else go to the next page
DSAjaxBatchEnd ==
    /\ prog = "DS"
    /\ ds_pc = "ajax_end"
    /\ IF ~ds_has_new
       THEN /\ DSNextCategory
            /\ UNCHANGED ds_page
       ELSE /\ ds_page' = ds_page + 1
            /\ ds_pc' = "ajax_check"
            /\ UNCHANGED ds_cat
    /\ UNCHANGED <<prog, bi_vars, fu_vars, na_vars, kk_vars, pa_vars, ds_target_count, ds_collected_count, ds_cat_id,
                   ds_last_id, ds_category_collected, ds_seen_urls, ds_left, ds_has_new,
                   ds_cur, ds_returned, ds_batch_new, ds_file>>
    /\ UNCHANGED ds_exhausted
    /\ UNCHANGED <<ds_flushed, ds_prior>>

DSNext ==
    \/ DSOpenOutput
    \/ \E meta \in {"fail", "noid", "id", "id+cursor"} : DSDiscover(meta)
    \/ \E ok \in BOOLEAN : \E n \in 0..MaxBatch : DSLanding(ok, n)
    \/ \E href \in DSHrefs : DSLandingLink(href)
    \/ DSLandingEnd
    \/ \E o \in DSArticleOutcomes : DSLandingDetail(o)
    \/ DSAjaxCheck
    \/ \E kind \in DSAjaxKinds : \E n \in 1..MaxBatch : DSAjaxResponse(kind, n)
    \/ \E u \in DSItemUrls : DSAjaxItem(u)
    \/ \E o \in DSArticleOutcomes : DSAjaxDetail(o)
    \/ DSAjaxItemsDone
    \/ DSAjaxBatchEnd

----------------------------------------------------------------------------
(* KalerKanthoCrawler *)

\* crawl, lines 135-141 (the model keeps two of the five)
KKCategories == <<"national", "Politics">>

\* n_id values of list items; 0 stands for a missing n_id
KKIds == {1, 2}

KKInit(active) ==
    /\ kk_target_count \in (IF active THEN 0..MaxTarget ELSE {0})
    /\ kk_collected_count = 0
    /\ kk_build_id = "None"
    /\ kk_pc = "build_id"
    /\ kk_cat = 1
    /\ kk_category_collected = 0
    /\ kk_page = 1
    /\ kk_left = 0
    /\ kk_cur = 0
    /\ kk_exhausted = 0
    /\ kk_file = <<>>
    /\ kk_flushed = 0
    /\ kk_prior \in Priors(active /\ kk_target_count = 1)

\* get_build_id, line 59: what fetch_url returns for the homepage.
\*   "fail"       None or an empty text
\*   "challenge"  a page containing "Just a moment"
\*   "nomatch"    a page in which the pattern of line 69 does not occur
\*   <<"buildId", v>>  a page in which the pattern first occurs as "buildId":"v"
KKHomepages ==
    {"fail", "challenge", "nomatch"} \X {""}
        \cup ({"buildId"} \X {"discovered", ""})

\* get_build_id, line 62
known_build_id == "kk-build-0.5.95"

\* get_build_id, lines 57-77: the value left in self.build_id.  The group (.*?)
\* of line 69 captures the characters up to the next quote, none included.
KKBuildId(home) ==
    IF home[1] \in {"fail", "challenge"} THEN known_build_id
    ELSE IF home[1] = "buildId" THEN home[2]
    ELSE known_build_id

\* get_build_id, lines 57-77, and crawl, lines 132-153.  get_build_id returns
\* True on each of its three paths, so line 133 is never taken.
KKGetBuildId(home) ==
    /\ prog = "KK"
    /\ kk_pc = "build_id"
    /\ kk_build_id' = KKBuildId(home)
    /\ kk_prior' = Truncate(kk_prior)
    /\ kk_pc' = "list_check"
    /\ UNCHANGED <<prog, bi_vars, fu_vars, na_vars, ds_vars, pa_vars, kk_target_count, kk_collected_count, kk_cat,
                   kk_category_collected, kk_page, kk_left, kk_cur, kk_file>>
    /\ UNCHANGED kk_exhausted
    /\ UNCHANGED kk_flushed

\* crawl, lines 150-153: the for loop moves to the next category, or ends
KKNextCategory ==
    /\ kk_cat' = kk_cat + 1
    /\ kk_category_collected' = 0
    /\ kk_page' = 1
    /\ kk_pc' = IF kk_cat = Len(KKCategories) THEN "done" ELSE "list_check"

\* crawl, lines 155 and 176: the per-category cap test
KKCapReached == kk_category_collected >= category_target

\* crawl, line 155: the while test; when it holds the list request of lines
\* 156-159 for page kk_page is issued
KKListCheck ==
    /\ prog = "KK"
    /\ kk_pc = "list_check"
    /\ IF ~KKCapReached
       THEN /\ kk_pc' = "list_wait"
            /\ UNCHANGED <<kk_cat, kk_category_collected, kk_page>>
       ELSE KKNextCategory
    /\ UNCHANGED <<prog, bi_vars, fu_vars, na_vars, ds_vars, pa_vars, kk_target_count, kk_collected_count,
                   kk_build_id, kk_left, kk_cur, kk_file>>
    /\ UNCHANGED kk_exhausted
    /\ UNCHANGED kk_prior
    /\ kk_flushed' = IF kk_pc' \in {"done", "crashed"} THEN Len(kk_file) ELSE kk_flushed

\* crawl, lines 159-173: the response of the list call.  kind: "none" (fetch
\* failed), "badjson", "nondict" (json without .get: the AttributeError of
\* line 170 is not caught), "empty" (no newsData), "list" (n >= 1 items)
KKListKinds == {"none", "badjson", "nondict", "empty", "list"}

\* the break conditions of lines 160-173 without the test of line 171
KKListEndsNoEmptyTest(kind) == kind \in {"none", "badjson"}

\* crawl, lines 160-173: the responses on which the while loop breaks
KKListEnds(kind) == kind \in {"none", "badjson", "empty"}

KKListResponse(kind, n) ==
    /\ prog = "KK"
    /\ kk_pc = "list_wait"
    /\ kind = "list" => kk_page <= MaxPage
    /\ IF kind = "nondict"
       THEN /\ kk_pc' = "crashed"
            /\ UNCHANGED <<kk_cat, kk_category_collected, kk_page, kk_left>>
       ELSE IF KKListEnds(kind)
       THEN /\ KKNextCategory
            /\ UNCHANGED kk_left
       ELSE /\ kk_pc' = "iter"
            /\ kk_left' = IF kind = "list" THEN n ELSE 0
            /\ UNCHANGED <<kk_cat, kk_category_collected, kk_page>>
    /\ kk_exhausted' = IF kind = "list" THEN kk_exhausted ELSE kk_cat
    /\ UNCHANGED <<prog, bi_vars, fu_vars, na_vars, ds_vars, pa_vars, kk_target_count, kk_collected_count,
                   kk_build_id, kk_cur, kk_file>>
    /\ UNCHANGED kk_prior
    /\ kk_flushed' = IF kk_pc' \in {"done", "crashed"} THEN Len(kk_file) ELSE kk_flushed

\* crawl, lines 175-188, and fetch_article, lines 92-100: the next item of
\* news_list.  n_id = 0 is a missing n_id; start_at is "missing", "bad" (not
\* "%Y-%m-%d %H:%M:%S": fetch_article returns None without a request) or "ok"
KKItem(n_id, start_at) ==
    /\ prog = "KK"
    /\ kk_pc = "iter"
    /\ kk_left > 0
    /\ IF KKCapReached
       THEN /\ kk_pc' = "list_check"
            /\ kk_page' = kk_page + 1
            /\ UNCHANGED <<kk_left, kk_cur>>
       ELSE IF n_id # 0 /\ start_at = "ok"
       THEN /\ kk_pc' = "detail_wait"
            /\ kk_cur' = n_id
            /\ UNCHANGED <<kk_left, kk_page>>
       ELSE /\ kk_left' = kk_left - 1
            /\ UNCHANGED <<kk_pc, kk_cur, kk_page>>
    /\ UNCHANGED <<prog, bi_vars, fu_vars, na_vars, ds_vars, pa_vars, kk_target_count, kk_collected_count,
                   kk_build_id, kk_cat, kk_category_collected, kk_file>>
    /\ UNCHANGED kk_exhausted
    /\ UNCHANGED <<kk_flushed, kk_prior>>

\* fetch_article, lines 100-129, as seen by crawl: "fail" (no content),
\* "badjson", "nodetails" (all three return None), "nobody" (a record whose
\* n_details cleans to ""), "ok" (a record with body text)
KKArticleOutcomes == {"fail", "badjson", "nodetails", "nobody", "ok"}

\* crawl, line 189: the acceptance test `if article_doc:` (a dict is truthy)
KKAccepted(o) == o \in {"nobody", "ok"}

\* crawl, line 190: f.write puts the line into the buffer of f and nothing
\* flushes it; a write that finds the buffer full first empties it into the
\* file.  The result is the number of lines that have reached the file, given
\* that number and the number of lines written before this write
KKWrite(flushed, written) ==
    IF written - flushed >= BufferLines THEN written ELSE flushed

\* crawl, lines 188-195: the detail fetch returns
KKDetail(o) ==
    /\ prog = "KK"
    /\ kk_pc = "detail_wait"
    /\ IF KKAccepted(o)
       THEN /\ kk_file' = Append(kk_file, [url |-> kk_cur,
                                           category |-> KKCategories[kk_cat],
                                           body |-> IF o = "ok" THEN "text" ELSE ""])
            /\ kk_category_collected' = kk_category_collected + 1
            /\ kk_collected_count' = kk_collected_count + 1
            /\ kk_flushed' = KKWrite(kk_flushed, Len(kk_file))
       ELSE UNCHANGED <<kk_file, kk_flushed, kk_category_collected, kk_collected_count>>
    /\ kk_pc' = "iter"
    /\ kk_left' = kk_left - 1
    /\ kk_cur' = 0
    /\ UNCHANGED <<prog, bi_vars, fu_vars, na_vars, ds_vars, pa_vars, kk_target_count, kk_build_id, kk_cat, kk_page>>
    /\ UNCHANGED kk_exhausted
    /\ UNCHANGED kk_prior

\* crawl, lines 175 and 197-198: news_list has no item left; next page
KKPageDone ==
    /\ prog = "KK"
    /\ kk_pc = "iter"
    /\ kk_left = 0
    /\ kk_page' = kk_page + 1
    /\ kk_pc' = "list_check"
    /\ UNCHANGED <<prog, bi_vars, fu_vars, na_vars, ds_vars, pa_vars, kk_target_count, kk_collected_count,
                   kk_build_id, kk_cat, kk_category_collected, kk_left, kk_cur, kk_file>>
    /\ UNCHANGED kk_exhausted
    /\ UNCHANGED <<kk_flushed, kk_prior>>

KKNext ==
    \/ \E home \in KKHomepages : KKGetBuildId(home)
    \/ KKListCheck
    \/ \E kind \in KKListKinds : \E n \in 1..MaxBatch : KKListResponse(kind, n)
    \/ \E n_id \in KKIds \cup {0} : \E start_at \in {"missing", "bad", "ok"} :
          KKItem(n_id, start_at)
    \/ \E o \in KKArticleOutcomes : KKDetail(o)
    \/ KKPageDone

----------------------------------------------------------------------------
(* ProthomAloBangladeshSpider *)

\* story urls the site can serve
PAUrls == {1, 2}

\* parse, lines 43-55, and parse_api, lines 129-141
PAHeadlineOnly == [url |-> 0, body |-> "null", content_type |-> "headline-only"]

\* parse_article, lines 167-179
PAFullArticle(u, body) == [url |-> u, body |-> body, content_type |-> "full-article"]

RECURSIVE PAHeadlines(_)
PAHeadlines(h) == IF h = 0 THEN <<>> ELSE <<PAHeadlineOnly>> \o PAHeadlines(h - 1)

\* next_api_request without the increment of line 88
next_api_request_same_offset(offset) == [request |-> offset, offset |-> offset]

\* next_api_request, lines 80-97: the request carries the current offset
\* (lines 81-86) and self.offset is advanced by limit (line 88)
next_api_request(offset) == [request |-> offset, offset |-> offset + limit]

PAInit(active) ==
    /\ pa_started = FALSE
    /\ pa_offset = 0
    /\ pa_items_seen = 0
    /\ pa_api = {}
    /\ pa_articles = {}
    /\ pa_dupes = {}
    /\ pa_exhausted = FALSE
    /\ pa_feed = <<>>

\* parse, lines 32-75, with next_api_request, lines 80-97: the section page
\* holds h unlinked headlines and links to the stories in `links`
PAParse(h, links) ==
    /\ prog = "PA"
    /\ ~pa_started
    /\ pa_started' = TRUE
    /\ pa_items_seen' = pa_items_seen + h
    /\ pa_feed' = pa_feed \o PAHeadlines(h)
    /\ pa_articles' = pa_articles \cup (links \ pa_dupes)
    /\ pa_dupes' = pa_dupes \cup links
    /\ pa_api' = pa_api \cup {next_api_request(pa_offset).request}
    /\ pa_offset' = next_api_request(pa_offset).offset
    /\ UNCHANGED <<prog, bi_vars, fu_vars, na_vars, ds_vars, kk_vars, pa_exhausted>>

\* the download of the section page fails: parse is never called
PAStartFails ==
    /\ prog = "PA"
    /\ ~pa_started
    /\ pa_started' = TRUE
    /\ UNCHANGED <<prog, bi_vars, fu_vars, na_vars, ds_vars, kk_vars, pa_offset, pa_items_seen, pa_api,
                   pa_articles, pa_dupes, pa_exhausted, pa_feed>>

\* parse_api, lines 107-155: the for loop over the entries of one batch.  An
\* entry is 0 (a story without url) or the url of a story.  st.next tells
\* whether the loop ran to its end (line 158 is reached)
PAEntries(batch, st) ==
    IF batch = <<>> THEN [st EXCEPT !.next = TRUE]
    ELSE IF st.items_seen >= max_items THEN st
    ELSE PAEntries(Tail(batch),
            [items_seen |-> st.items_seen + 1,
             feed |-> IF Head(batch) = 0 THEN Append(st.feed, PAHeadlineOnly) ELSE st.feed,
             requests |-> IF Head(batch) = 0 THEN st.requests
                          ELSE st.requests \cup {Head(batch)},
             next |-> FALSE])

\* parse_api, lines 100-105: the batch is parsed and is not empty
PAHasItems(kind) == kind = "items"

\* parse_api, lines 99-158, for the response of the list request with offset o.
\* kind: "httperror" (non-2xx: the callback is not called), "badjson"
\* (json.loads raises), "empty" (no items), "items" (the entries of batch)
PAApiKinds == {"httperror", "badjson", "empty", "items"}
PABatches == UNION {[1..k -> PAUrls \cup {0}] : k \in 1..MaxBatch}

PAParseApi(o, kind, batch) ==
    /\ prog = "PA"
    /\ o \in pa_api
    /\ LET b == IF kind = "items" THEN batch ELSE <<>>
           st == PAEntries(b, [items_seen |-> pa_items_seen, feed |-> pa_feed,
                               requests |-> {}, next |-> FALSE])
       IN IF PAHasItems(kind)
          THEN /\ pa_items_seen' = st.items_seen
               /\ pa_feed' = st.feed
               /\ pa_articles' = pa_articles \cup (st.requests \ pa_dupes)
               /\ pa_dupes' = pa_dupes \cup st.requests
               /\ pa_api' = (pa_api \ {o}) \cup
                             (IF st.next THEN {next_api_request(pa_offset).request} ELSE {})
               /\ pa_offset' = IF st.next THEN next_api_request(pa_offset).offset
                                ELSE pa_offset
          ELSE /\ pa_api' = pa_api \ {o}
               /\ UNCHANGED <<pa_items_seen, pa_feed, pa_articles, pa_dupes, pa_offset>>
    /\ pa_exhausted' = (pa_exhausted \/ kind # "items")
    /\ UNCHANGED <<prog, bi_vars, fu_vars, na_vars, ds_vars, kk_vars, pa_started>>

\* parse_article, lines 163-179, for the response of an article request.
\* o: "fail" (the download fails, no callback), "nobody" (no story text: body
\* is ""), "ok"
PAArticleOutcomes == {"fail", "nobody", "ok"}

PAParseArticle(u, o) ==
    /\ prog = "PA"
    /\ u \in pa_articles
    /\ pa_articles' = pa_articles \ {u}
    /\ pa_feed' = IF o = "fail" THEN pa_feed
                  ELSE Append(pa_feed, PAFullArticle(u, IF o = "ok" THEN "text" ELSE ""))
    /\ UNCHANGED <<prog, bi_vars, fu_vars, na_vars, ds_vars, kk_vars, pa_started, pa_offset, pa_items_seen,
                   pa_api, pa_dupes, pa_exhausted>>

PANext ==
    \/ \E h \in 0..MaxBatch : \E links \in SUBSET PAUrls : PAParse(h, links)
    \/ PAStartFails
    \/ \E o \in pa_api : \E kind \in PAApiKinds : \E batch \in PABatches :
          PAParseApi(o, kind, batch)
    \/ \E u \in pa_articles : \E o \in PAArticleOutcomes : PAParseArticle(u, o)

----------------------------------------------------------------------------
(* NewAgeBDCrawler.fetch_url in detail: one call, every request and sleep *)

\* fetch_url, line 46
backoff == 1

\* the Retry-After header of a 429 response: absent, a number of seconds, or
\* an HTTP-date that lies `secs` seconds ahead
FUNoRetryAfter == [present |-> FALSE, form |-> "seconds", secs |-> 0]
FURetryAfter ==
    {FUNoRetryAfter} \cup [present : {TRUE}, form : {"seconds", "date"}, secs : {2, 120}]

\* what one session.get can end in: a response with a status, a timeout or a
\* network error
FUOutcomes ==
    [kind : {"http"}, status : {200, 403, 404, 500}, retry_after : {FUNoRetryAfter}]
    \cup [kind : {"http"}, status : {429}, retry_after : FURetryAfter]
    \cup [kind : {"timeout", "neterror"}, status : {0}, retry_after : {FUNoRetryAfter}]

\* random.uniform(0, 1) of line 63; the model keeps the two ends of the interval
FUJitter == {0, 1}

\* line 53: int(response.headers.get("Retry-After", 60)) has a value
FUIntParses(h) == ~h.present \/ h.form = "seconds"
\* line 53: that value
FUWait(h) == IF h.present THEN h.secs ELSE 60

\* line 57: raise_for_status raises on a status of 400 and above
FURaisesForStatus(status) == status >= 400

\* lines 59-63: what sends the attempt into the except branch
FUExcept(o) ==
    \/ o.kind \in {"timeout", "neterror"}
    \/ o.kind = "http" /\ o.status = 429 /\ ~FUIntParses(o.retry_after)
    \/ o.kind = "http" /\ o.status # 429 /\ FURaisesForStatus(o.status)

\* line 60: the attempt after which the except branch gives up
FULastAttempt(i) == i = retries - 1

\* line 47 with one iteration too many
FUMoreAttemptsOneMore(i) == i < retries

\* line 47: `for i in range(retries)` has a next iteration after attempt i
FUMoreAttempts(i) == i + 1 < retries

FUInit ==
    /\ fu_pc = "get"
    /\ fu_i = 0
    /\ fu_requests = 1
    /\ fu_responses = <<>>
    /\ fu_sleeps = <<>>

\* fetch_url, lines 49-63: the request in flight ends in o; the coroutine runs
\* to its next suspension (a sleep) or to its return
FUResponse(o, jitter) ==
    /\ prog = "FU"
    /\ fu_pc = "get"
    /\ fu_responses' = Append(fu_responses, o)
    /\ IF FUExcept(o)
       THEN IF FULastAttempt(fu_i)
            THEN /\ fu_pc' = "none"
                 /\ UNCHANGED fu_sleeps
            ELSE /\ fu_pc' = "sleep"
                 /\ fu_sleeps' = Append(fu_sleeps,
                        [kind |-> "backoff", i |-> fu_i,
                         wait |-> backoff * (2 ^ fu_i), jitter |-> jitter])
       ELSE IF o.status = 429
       THEN /\ fu_pc' = "sleep"
            /\ fu_sleeps' = Append(fu_sleeps,
                   [kind |-> "retry_after", i |-> fu_i,
                    wait |-> FUWait(o.retry_after), jitter |-> 0])
       ELSE /\ fu_pc' = "text"
            /\ UNCHANGED fu_sleeps
    /\ UNCHANGED <<prog, bi_vars, na_vars, ds_vars, kk_vars, pa_vars, fu_i, fu_requests>>

\* fetch_url, lines 47, 55 and 63: the sleep is over; the for loop starts its
\* next iteration with a new session.get, or is exhausted and None is returned
FUWake ==
    /\ prog = "FU"
    /\ fu_pc = "sleep"
    /\ IF FUMoreAttempts(fu_i)
       THEN /\ fu_i' = fu_i + 1
            /\ fu_requests' = fu_requests + 1
            /\ fu_pc' = "get"
       ELSE /\ fu_pc' = "none"
            /\ UNCHANGED <<fu_i, fu_requests>>
    /\ UNCHANGED <<prog, bi_vars, na_vars, ds_vars, kk_vars, pa_vars, fu_responses, fu_sleeps>>

FUNext ==
    \/ \E o \in FUOutcomes : \E jitter \in FUJitter : FUResponse(o, jitter)
    \/ FUWake

----------------------------------------------------------------------------
(* build_index: the corpus consumer *)

\* A text is a sequence of characters.  The characters of the model:
\* lower-case letters, the capital "H", the apostrophe, the backslash, space
\* and newline, the Bangla letter KA (U+0995, "ka"), the Bangla vowel sign AA
\* (U+09BE, "aa": not a word character, inside U+0980-U+09FF) and the danda
\* (U+0964, "danda": punctuation outside U+0980-U+09FF)
BILetters == {"h", "e", "l", "o", "w", "r", "d", "n", "t"}

\* the classes of the pattern of tokenize, line 27: \w, \s and U+0980-U+09FF
IsWordChar(c) == c \in BILetters \cup {"H", "ka"}
IsSpace(c) == c \in {" ", "\n"}
IsBangla(c) == c \in {"ka", "aa"}

\* str.lower, per character
lower(c) == IF c = "H" THEN "h" ELSE c

\* bodies of the documents a crawler may have written
BIBodies ==
    { <<"h","e","l","l","o"," ","w","o","r","l","d">>,
      <<"H","e","l","l","o"," ","h","e","l","l","o">>,
      <<"d","o","n","'","t">>,
      <<"n","o"," ","n","o">>,
      <<>>,
      <<"ka","aa","danda","\n","ka">>,
      <<"\\","n"," ","n">> }

\* json.dumps of a string, between the quotes: newline and backslash are escaped
JsonEscape(text) ==
    IF text = <<>> THEN <<>>
    ELSE (CASE Head(text) = "\n" -> <<"\\", "n">>
            [] Head(text) = "\\" -> <<"\\", "\\">>
            [] OTHER -> <<Head(text)>>) \o JsonEscape(Tail(text))

\* json.loads of a string, between the quotes
JsonUnescape(chars) ==
    IF chars = <<>> THEN <<>>
    ELSE IF Head(chars) = "\\" /\ Len(chars) >= 2
         THEN <<IF chars[2] = "n" THEN "\n" ELSE chars[2]>>
              \o JsonUnescape(Tail(Tail(chars)))
         ELSE <<Head(chars)>> \o JsonUnescape(Tail(chars))

\* One line of a corpus file, as json.loads sees it after line.strip():
\*   kind "blank" (nothing but whitespace), "malformed" (JSONDecodeError),
\*   "array" and "scalar" (JSON that is no object), "object";
\*   body_type of an object: "string", "null", or "absent" (no "body" member);
\*   body: the characters between the quotes of a string body
BILine(kind, body_type, body) == [kind |-> kind, body_type |-> body_type, body |-> body]

\* save_document, lines 181-183 (and the f.write of the other crawlers):
\* json.dumps(doc, ensure_ascii=False) + "\n" for a document with this body
BISinkLine(body) == BILine("object", "string", JsonEscape(body))

\* the feed line of a Prothom Alo headline-only item: 'body': None
BIHeadlineOnlyLine == BILine("object", "null", <<>>)

BILines ==
    {BISinkLine(b) : b \in BIBodies}
    \cup {BIHeadlineOnlyLine, BILine("object", "absent", <<>>)}
    \cup {BILine(k, "absent", <<>>) : k \in {"blank", "malformed", "array", "scalar"}}

BILanguages == {"bangla", "english"}

\* str.strip
strip_left(text) ==
    IF text # <<>> /\ IsSpace(Head(text)) THEN strip_left(Tail(text)) ELSE text
Reverse(text) == [k \in 1..Len(text) |-> text[Len(text) + 1 - k]]
strip(text) == Reverse(strip_left(Reverse(strip_left(text))))

\* re.sub(r"[^\w\s\u0980-\u09FF]", " ", text), line 27
BISub(text) ==
    [k \in 1..Len(text) |->
        IF IsWordChar(text[k]) \/ IsSpace(text[k]) \/ IsBangla(text[k])
        THEN text[k] ELSE " "]

\* str.split(): the maximal runs of non-whitespace characters
SplitFrom(text, word) ==
    IF text = <<>> THEN (IF word = <<>> THEN <<>> ELSE <<word>>)
    ELSE IF IsSpace(Head(text))
         THEN (IF word = <<>> THEN <<>> ELSE <<word>>) \o SplitFrom(Tail(text), <<>>)
         ELSE SplitFrom(Tail(text), Append(word, Head(text)))
split(text) == SplitFrom(text, <<>>)

\* tokenize, lines 20-30
tokenize(text, language) ==
    LET stripped == strip(text)
        cased == IF language = "english"
                 THEN [k \in 1..Len(stripped) |-> lower(stripped[k])]
                 ELSE stripped
    IN split(BISub(cased))

\* Counter that counts every token once
CounterOfOnes(tokens) ==
    [t \in {tokens[k] : k \in 1..Len(tokens)} |-> 1]

\* Counter(tokens), line 63
Counter(tokens) ==
    [t \in {tokens[k] : k \in 1..Len(tokens)} |->
        Cardinality({k \in 1..Len(tokens) : tokens[k] = t})]

\* line 59: str(total_docs), the decimal digits of a natural number
str(n) == ToString(n)

\* line 65 giving each term of tf a posting list of its own, the postings of
\* earlier documents dropped
BIAddPostingsAnew(index, tf, doc_id) ==
    [t \in DOMAIN index \cup DOMAIN tf |->
        IF t \in DOMAIN tf THEN (doc_id :> tf[t]) ELSE index[t]]

\* lines 64-65: inverted_index[term][doc_id] = freq for every term of tf
BIAddPostings(index, tf, doc_id) ==
    [t \in DOMAIN index \cup DOMAIN tf |->
        IF t \in DOMAIN tf
        THEN (doc_id :> tf[t]) @@ (IF t \in DOMAIN index THEN index[t] ELSE <<>>)
        ELSE index[t]]

\* sum(doc_lengths.values()) over the doc ids 0..n-1
Sum(lengths, n) == IF n = 0 THEN 0 ELSE lengths[str(n - 1)] + Sum(lengths, n - 1)

BIInit(active) ==
    /\ bi_language \in (IF active THEN BILanguages ELSE {"english"})
    /\ bi_corpus \in (IF active THEN UNION {[1..n -> BILines] : n \in 0..MaxLines}
                                ELSE {<<>>})
    /\ bi_line_no = 0
    /\ bi_pc = "reading"
    /\ bi_total_docs = 0
    /\ bi_skipped_lines = 0
    /\ bi_doc_lengths = <<>>
    /\ bi_inverted_index = <<>>
    /\ bi_stats = <<>>

\* build_index, lines 43-65: one pass of the for loop.  doc.get on JSON that is
\* no object (line 56) and text.strip() on a null body (line 21) raise
\* AttributeError, which the except of line 51 does not catch.
BIReadLine ==
    /\ prog = "BI"
    /\ bi_pc = "reading"
    /\ bi_line_no < Len(bi_corpus)
    /\ bi_line_no' = bi_line_no + 1
    /\ LET line == bi_corpus[bi_line_no + 1]
           text == IF line.body_type = "absent" THEN <<>> ELSE JsonUnescape(line.body)
           tokens == tokenize(text, bi_language)
           doc_id == str(bi_total_docs)
       IN CASE line.kind = "blank" ->
                 UNCHANGED <<bi_pc, bi_total_docs, bi_skipped_lines, bi_doc_lengths,
                             bi_inverted_index>>
            [] line.kind = "malformed" ->
                 /\ bi_skipped_lines' = bi_skipped_lines + 1
                 /\ UNCHANGED <<bi_pc, bi_total_docs, bi_doc_lengths, bi_inverted_index>>
            [] line.kind \in {"array", "scalar"}
               \/ (line.kind = "object" /\ line.body_type = "null") ->
                 /\ bi_pc' = "aborted"
                 /\ UNCHANGED <<bi_total_docs, bi_skipped_lines, bi_doc_lengths,
                                bi_inverted_index>>
            [] OTHER ->
                 /\ bi_total_docs' = bi_total_docs + 1
                 /\ bi_doc_lengths' = (doc_id :> Len(tokens)) @@ bi_doc_lengths
                 /\ bi_inverted_index' =
                       BIAddPostings(bi_inverted_index, Counter(tokens), doc_id)
                 /\ UNCHANGED <<bi_pc, bi_skipped_lines>>
    /\ UNCHANGED <<prog, na_vars, ds_vars, kk_vars, pa_vars, fu_vars, bi_language, bi_corpus,
                   bi_stats>>

\* build_index, lines 67-77: the file is read to its end; stats is built and
\* the three results are returned.  average_doc_length is kept as the pair
\* (sum of the lengths, total_docs) of the division of line 73
BIReturn ==
    /\ prog = "BI"
    /\ bi_pc = "reading"
    /\ bi_line_no = Len(bi_corpus)
    /\ bi_stats' = [language |-> bi_language,
                    total_documents |-> bi_total_docs,
                    skipped_lines |-> bi_skipped_lines,
                    vocabulary_size |-> Cardinality(DOMAIN bi_inverted_index),
                    average_doc_length |->
                        IF bi_total_docs > 0
                        THEN <<Sum(bi_doc_lengths, bi_total_docs), bi_total_docs>>
                        ELSE <<0, 1>>]
    /\ bi_pc' = "done"
    /\ UNCHANGED <<prog, na_vars, ds_vars, kk_vars, pa_vars, fu_vars, bi_language, bi_corpus,
                   bi_line_no, bi_total_docs, bi_skipped_lines, bi_doc_lengths,
                   bi_inverted_index>>

BINext == BIReadLine \/ BIReturn

----------------------------------------------------------------------------
(* NewAgeBDCrawler: properties *)

NALinesOf(c) == {i \in 1..Len(na_file) : na_file[i].category = c}
NALinesWithUrl(u) == {i \in 1..Len(na_file) : na_file[i].url = u}
NAPassedDedup(u) ==
    {t \in NATaskIds : na_tasks[t].url = u /\ na_pc[t] \notin {"new", "early", "dup"}}
NADistinctUrls(c) == {na_tasks[t].url : t \in {x \in NATaskIds : na_tasks[x].category = c}}

\* C1: under every interleaving of process_article tasks, collected_counts[category]
\* never exceeds target_count and at most target_count documents of a category
\* are in the output file.
NACapNeverExceeded ==
    \A c \in NACatSet :
        /\ na_collected_counts[c] <= na_target_count
        /\ Cardinality(NALinesOf(c)) <= na_target_count

\* C1 witness: two tasks of one category had both fetched; one took the last slot
\* and the other landed on a full category.
NACapRaceWitness ==
    \E t1 \in NATaskIds, t2 \in NATaskIds :
        /\ na_tasks[t1].category = na_tasks[t2].category
        /\ na_pc[t1] = "saved" /\ na_pc[t2] = "discarded"
        /\ na_collected_counts[na_tasks[t1].category] = na_target_count

\* C2: each distinct url passes the visited_urls check at most once, so it is
\* fetched and written at most once; when the run is over and no fetch or
\* extraction failed, each category's count is its number of distinct urls
\* capped at target_count.
NADedupOnce ==
    /\ \A u \in NALocs :
          /\ Cardinality(NAPassedDedup(u)) <= 1
          /\ Cardinality(NALinesWithUrl(u)) <= 1
    /\ (na_phase = "done" /\ \A t \in NATaskIds : na_pc[t] \notin {"failed", "rejected"})
          => \A c \in NACatSet :
                na_collected_counts[c] =
                    Min(Cardinality(NADistinctUrls(c)), na_target_count)

\* C2 witness: a finished run without failures in which a url was listed twice,
\* was saved by one task and refused as a duplicate for the other.
NADedupWitness ==
    /\ na_phase = "done"
    /\ \A t \in NATaskIds : na_pc[t] \notin {"failed", "rejected"}
    /\ \E t1 \in NATaskIds, t2 \in NATaskIds :
          /\ t1 # t2 /\ na_tasks[t1].url = na_tasks[t2].url
          /\ na_pc[t1] = "saved" /\ na_pc[t2] = "dup"

\* C3: a document that lands (its fetch and extraction succeeded) when
\* collected_counts[category] already equals target_count is discarded: the
\* output file and the counters are unchanged.
NADiscardedAtCap ==
    [][\A t \in NATaskIds :
          (/\ na_pc[t] = "request"
           /\ na_pc'[t] \in {"saved", "discarded"}
           /\ na_collected_counts[na_tasks[t].category] = na_target_count)
          => (/\ na_pc'[t] = "discarded"
              /\ na_file' = na_file
              /\ na_collected_counts' = na_collected_counts)]_vars

\* C3 witness: a task was dispatched while its category was below a positive cap
\* and its document was discarded on landing.
NADiscardWitness ==
    \E t \in NATaskIds :
        /\ na_pc[t] = "discarded"
        /\ na_target_count > 0
        /\ na_collected_counts[na_tasks[t].category] = na_target_count

\* C20: listing is an upfront phase of crawl: the sitemaps of the fixed list
\* are fetched one logical fetch each, exactly once and in list order, all of
\* them before any process_article task exists (so before the first detail
\* fetch); a sitemap whose fetch fails adds no candidate and the loop goes on
\* with the next one.
NASitemapsInOrder ==
    /\ na_sitemap_idx \in 1..(NumSitemaps + 1)
    /\ na_phase \in {"start", "sitemaps", "queue"} =>
          /\ Len(na_sitemap_log) = na_sitemap_idx - 1
          /\ na_tasks = <<>>
    /\ na_phase \in {"start", "sitemaps"} <=> na_sitemap_idx <= NumSitemaps
    /\ na_tasks # <<>> => na_sitemap_idx = NumSitemaps + 1

NASitemapStep ==
    /\ na_sitemap_idx' # na_sitemap_idx =>
          /\ na_sitemap_idx' = na_sitemap_idx + 1
          /\ Len(na_sitemap_log') = Len(na_sitemap_log) + 1
    /\ na_sitemap_log' = Append(na_sitemap_log, FALSE) =>
          /\ na_all_candidates' = na_all_candidates
          /\ na_sitemap_idx' = na_sitemap_idx + 1
    /\ na_all_candidates' # na_all_candidates =>
          na_sitemap_log' = Append(na_sitemap_log, TRUE)

NAListingUpfront == []NASitemapsInOrder /\ [][NASitemapStep]_vars

\* C20 witness: the first sitemap failed, a later one was fetched and gave
\* candidates, and the loop is over before any task exists.
NAFailedSitemapWitness ==
    /\ na_phase = "queue"
    /\ na_sitemap_log[1] = FALSE
    /\ \E k \in 2..NumSitemaps : na_sitemap_log[k]
    /\ NATotalCandidates > 0
    /\ na_tasks = <<>>

\* A candidate that was skipped: its fetch returned None (an empty text, or an
\* error on the last attempt) or parse_article returned None
NASkipped(pc) == pc \in {"failed", "rejected"}

\* C21: a candidate whose fetch fails after all retries or whose payload is
\* rejected by parse_article is skipped and not retried.  The step that skips
\* it leaves the output file and every collected_counts entry unchanged and
\* moves no other task; afterwards the task stays skipped, its URL stays in
\* visited_urls, no other task with that URL starts a fetch, and no rejected
\* payload is ever a line of the output file.
NASkippedNotRetried ==
    /\ [](\A i \in 1..Len(na_file) : na_file[i].body = "text")
    /\ [][\A t \in 1..Len(na_tasks) :
            /\ (~NASkipped(na_pc[t]) /\ NASkipped(na_pc'[t])) =>
                  /\ na_file' = na_file
                  /\ na_collected_counts' = na_collected_counts
                  /\ na_tasks[t].url \in na_visited_urls'
                  /\ \A u \in 1..Len(na_tasks) : u # t => na_pc'[u] = na_pc[u]
            /\ NASkipped(na_pc[t]) =>
                  /\ na_pc'[t] = na_pc[t]
                  /\ na_try'[t] = na_try[t]
                  /\ na_tasks[t].url \in na_visited_urls'
                  /\ \A u \in 1..Len(na_tasks) :
                        (u # t /\ na_tasks[u].url = na_tasks[t].url)
                           => na_pc'[u] \notin {"request", "sleep"}
       ]_vars

\* C21 witness: one candidate failed on its last attempt, a later task with the
\* same URL was turned away as a duplicate, and the remaining task went on and
\* saved its document
NASkippedWitness ==
    \E t, u, v \in 1..Len(na_tasks) :
        /\ na_pc[t] = "failed" /\ na_try[t] = retries - 1
        /\ u # t /\ na_tasks[u].url = na_tasks[t].url /\ na_pc[u] = "dup"
        /\ na_pc[v] = "saved"
        /\ Len(na_file) = 1

\* C22: discovery never aborts the run.  Whatever the homepage fetch returned,
\* once get_build_id is over build_id holds a non-empty value and crawl is
\* in the listing of the first category (or beyond).
KKDiscoveryAlwaysSucceeds ==
    kk_pc # "build_id" => kk_build_id \notin {"None", ""}

\* C26: the lock is not held by a task that is suspended on a fetch or a sleep
\* or that has finished, and, every request returning and every sleep ending,
\* every process_article task finishes and crawl() returns.
NALockFreeAndTerminates ==
    /\ [](\A t \in 1..Len(na_tasks) :
            na_pc[t] \in {"request", "sleep"} \cup NADonePcs => na_lock # t)
    /\ <>(na_phase = "done" /\ \A t \in 1..Len(na_tasks) : na_pc[t] \in NADonePcs)

\* C26 witness: crawl() has returned after one task went through the lock twice
\* and saved its document and another used up its attempts with sleeps between
NATerminatedWitness ==
    /\ na_phase = "done"
    /\ \E t, u \in 1..Len(na_tasks) :
          /\ na_pc[t] = "saved"
          /\ na_pc[u] = "failed" /\ na_try[u] = retries - 1

\* C4: once collected_counts[category] has reached target_count, no detail HTTP
\* request for a candidate of that category is started.
NANoRequestAfterCap ==
    [][\A t \in NATaskIds :
          ((na_pc[t] # "request" /\ na_pc'[t] = "request")
              => na_collected_counts[na_tasks[t].category] < na_target_count)]_vars

----------------------------------------------------------------------------
(* Sequential and paginated crawlers: properties *)

\* a detail fetch or a list request of DailySunCrawler is in flight
DSDetailInFlight == ds_pc \in {"landing_detail", "ajax_detail"}
DSListInFlight == ds_pc = "ajax_wait"
\* a detail fetch or a list request of KalerKanthoCrawler is in flight
KKDetailInFlight == kk_pc = "detail_wait"
KKListInFlight == kk_pc = "list_wait"

\* C5: in DailySunCrawler.crawl and KalerKanthoCrawler.crawl, once the number
\* of documents collected for a category equals the category's cap, no list
\* request and no detail fetch is issued for that category.
SeqNoRequestAtCap ==
    /\ (DSDetailInFlight \/ DSListInFlight) => ds_category_collected < ds_target_count
    /\ (KKDetailInFlight \/ KKListInFlight) => kk_category_collected < category_target

\* C5 witness: the cap of a category was reached in the middle of a batch, and
\* the crawler left the batch with items of the source still unread.
DSCapMidBatch ==
    /\ ds_target_count > 0 /\ ds_category_collected = ds_target_count
    /\ ds_pc = "ajax_end" /\ ds_left > 0
KKCapMidBatch ==
    /\ kk_category_collected = category_target
    /\ kk_pc = "list_check" /\ kk_left > 0
SeqCapWitness == DSCapMidBatch \/ KKCapMidBatch

\* C6: at every point of a DailySunCrawler or KalerKanthoCrawler run, the
\* crawler's collected_count is at most the target_count given to the constructor.
SeqCollectedWithinTarget ==
    /\ ds_collected_count <= ds_target_count
    /\ kk_collected_count <= kk_target_count

\* C7: when a list call returns no items (empty batch, empty response or
\* unparseable payload), the run for that category or source is over: the
\* DailySun and KalerKantho loops have left the category (or the run has
\* stopped), and Prothom Alo has no list request outstanding, from then on.
PagExhaustedIsTerminal ==
    /\ ds_exhausted < ds_cat
    /\ DSListInFlight => ds_exhausted # ds_cat
    /\ kk_pc = "crashed" \/ kk_exhausted < kk_cat
    /\ KKListInFlight => kk_exhausted # kk_cat
    /\ pa_exhausted => pa_api = {}

\* C7 witness: a list call after the first came back without items and the
\* category (DailySun, KalerKantho) or the chain (Prothom Alo) has ended.
DSExhaustedLater == ds_exhausted = 1 /\ ds_cat = 2 /\ ds_page = 2
KKExhaustedLater == kk_exhausted = 1 /\ kk_cat = 2 /\ kk_collected_count > 0
PAExhaustedLater == pa_exhausted /\ pa_offset >= 2 * limit /\ pa_api = {}
PagExhaustedWitness == DSExhaustedLater \/ KKExhaustedLater \/ PAExhaustedLater

\* C8: in the DailySun AJAX loop, when every url of a batch was already
\* returned by the landing page or an earlier batch of the category run, the
\* loop stops after that batch: a further list call is only made after a
\* batch that held a url not returned before.
DSStopsWithoutNewItems ==
    (DSListInFlight /\ ds_page > 1) => ds_batch_new

NoUrlTwice(file) ==
    \A i \in 1..Len(file), j \in 1..Len(file) : i # j => file[i].url # file[j].url

\* C9: within one run of DailySunCrawler or KalerKanthoCrawler, no article,
\* identified by its url or source-native id, is on more than one line of the
\* output file.
SeqWrittenOnce == NoUrlTwice(ds_file) /\ NoUrlTwice(kk_file)

BodyPresent(file) == \A i \in 1..Len(file) : file[i].body = "text"

\* C10: in every crawler, no record with an empty or absent body is written
\* unless it is tagged headline-only.
AllBodiesNonEmpty ==
    /\ BodyPresent(na_file)
    /\ BodyPresent(ds_file)
    /\ BodyPresent(kk_file)
    /\ \A i \in 1..Len(pa_feed) :
          pa_feed[i].content_type = "headline-only" \/ pa_feed[i].body = "text"

\* C11: in DailySunCrawler.crawl a fetch of one category that returns nothing
\* (discovery fetch, second landing-page fetch, list call or detail fetch)
\* aborts at most that category: the crawl never terminates abnormally, and
\* when it ends every category of category_urls has been started.
DSFetchFailureIsolated ==
    /\ ds_pc # "crashed"
    /\ ds_pc = "done" => ds_cat = Len(DSCategories) + 1

----------------------------------------------------------------------------
(* fetch_url: properties *)

FUFailed(o) == ~(o.kind = "http" /\ o.status = 200)
FUKinds == {fu_responses[k].kind : k \in 1..Len(fu_responses)}
FUStatuses == {fu_responses[k].status : k \in 1..Len(fu_responses)}

\* C12: fetch_url issues at most 3 HTTP requests for one logical fetch whatever
\* the outcomes are (429, timeout, network error, error status), it never
\* raises, and when the attempts are exhausted it has returned None.
FUAtMostThreeRequests ==
    /\ fu_requests <= 3
    /\ Len(fu_responses) <= fu_requests
    /\ fu_pc \in {"get", "sleep", "text", "none"}
    /\ (/\ Len(fu_responses) = 3
        /\ FUFailed(fu_responses[3])
        /\ fu_pc # "sleep") => fu_pc = "none"

\* C12 witness: three requests were made, they met a 429, a timeout and an
\* error status, and the call returned None.
FUExhaustedWitness ==
    /\ fu_requests = 3 /\ fu_pc = "none"
    /\ "timeout" \in FUKinds
    /\ {429, 500} \subseteq FUStatuses

\* a 4xx status other than 429
FUNonTransient(o) == o.kind = "http" /\ o.status \in 400..499 /\ o.status # 429

\* C13: a non-transient HTTP status (4xx other than 429) is permanent after
\* one attempt: once such a response has come in, fetch_url has returned its
\* failure value, no further request is made and no backoff sleep follows.
FUNonTransientIsPermanent ==
    \A k \in 1..Len(fu_responses) :
        FUNonTransient(fu_responses[k]) =>
            /\ fu_pc = "none"
            /\ fu_requests = k
            /\ \A n \in 1..Len(fu_sleeps) : fu_sleeps[n].i < k - 1

FUBackoffSleeps == {n \in 1..Len(fu_sleeps) : fu_sleeps[n].kind = "backoff"}
FUSleepsOfAttempt(i) == {n \in 1..Len(fu_sleeps) : fu_sleeps[n].i = i}

\* C14: the jitter-free backoff delays of successive retries are non-decreasing
\* (1, 2, ...: the base delay doubles per attempt), and the wait after a 429
\* response is the server's Retry-After delay when the header is present, and
\* 60 seconds otherwise.
FUDelaysAsSpecified ==
    /\ \A a \in FUBackoffSleeps, b \in FUBackoffSleeps :
          a < b => fu_sleeps[a].wait <= fu_sleeps[b].wait
    /\ \A n \in FUBackoffSleeps : fu_sleeps[n].wait = 2 ^ fu_sleeps[n].i
    /\ \A k \in 1..Len(fu_responses) :
          fu_responses[k].status = 429 =>
             /\ FUSleepsOfAttempt(k - 1) # {}
             /\ \A n \in FUSleepsOfAttempt(k - 1) :
                   /\ fu_sleeps[n].kind = "retry_after"
                   /\ fu_sleeps[n].jitter = 0
                   /\ fu_sleeps[n].wait =
                         IF fu_responses[k].retry_after.present
                         THEN fu_responses[k].retry_after.secs ELSE 60

----------------------------------------------------------------------------
(* Persistence sinks: properties *)

\* C15: in every crawler's sink each record is flushed right after it is
\* written: at every point of a run at most one record has been accepted and
\* counted without having reached the file.
SinkFlushedAfterWrite ==
    /\ Len(na_file) - na_flushed <= 1
    /\ Len(ds_file) - ds_flushed <= 1
    /\ Len(kk_file) - kk_flushed <= 1

NACollected == na_collected_counts["banking"] + na_collected_counts["politics"]

\* the output file has been emptied once crawl() has made its opening step
OutputEmptiedAtStart ==
    /\ na_phase # "start" => na_prior # "present"
    /\ ds_pc # "start" => ds_prior # "present"
    /\ kk_pc # "build_id" => kk_prior # "present"

\* the lines written are the records accepted so far
OutputHoldsAccepted ==
    /\ Len(na_file) = NACollected
    /\ Len(ds_file) = ds_collected_count
    /\ Len(kk_file) = kk_collected_count

\* all of them are in the file
OutputComplete ==
    /\ na_flushed = Len(na_file)
    /\ ds_flushed = Len(ds_file)
    /\ kk_flushed = Len(kk_file)

AppendOnly(file, file2) ==
    /\ Len(file2) \in {Len(file), Len(file) + 1}
    /\ SubSeq(file2, 1, Len(file)) = file

OutputAppendOnly ==
    /\ AppendOnly(na_file, na_file') /\ na_flushed' >= na_flushed
    /\ AppendOnly(ds_file, ds_file') /\ ds_flushed' >= ds_flushed
    /\ AppendOnly(kk_file, kk_file') /\ kk_flushed' >= kk_flushed
    /\ na_prior' # "present" => na_prior' \in {na_prior, "removed"}

\* C16: for DailySunCrawler, KalerKanthoCrawler and NewAgeBDCrawler the output
\* file is emptied at the start of crawl() before any record is written and is
\* only appended to afterwards: at every point of the run it contains exactly
\* the records accepted so far in this run, in acceptance order, and no record
\* of an earlier run.
OutputIsFreshSnapshot ==
    /\ [](OutputEmptiedAtStart /\ OutputHoldsAccepted /\ OutputComplete)
    /\ [][OutputAppendOnly]_vars

\* C27: accept-and-persist is one indivisible step.  Between steps (no task is
\* inside the accept step then) the number of lines in the output file equals
\* the collected counter: the sum of collected_counts in NewAgeBDCrawler,
\* collected_count in DailySunCrawler and KalerKanthoCrawler; and no counter
\* ever decreases.
SinkLinesEqualCounter ==
    /\ [](/\ na_flushed = NACollected
          /\ ds_flushed = ds_collected_count
          /\ kk_flushed = kk_collected_count)
    /\ [][/\ \A c \in NACatSet : na_collected_counts'[c] >= na_collected_counts[c]
          /\ ds_collected_count' >= ds_collected_count
          /\ kk_collected_count' >= kk_collected_count
       ]_vars

----------------------------------------------------------------------------
(* build_index: properties *)

\* json.loads accepts the line
BIParses(line) == line.kind \in {"array", "scalar", "object"}
BIRead == 1..bi_line_no
BIAllLines == 1..Len(bi_corpus)
BIParsed(lines) == {k \in lines : BIParses(bi_corpus[k])}
BICorrupted(lines) ==
    {k \in lines : bi_corpus[k].kind # "blank" /\ ~BIParses(bi_corpus[k])}
BINonBlank(lines) == {k \in lines : bi_corpus[k].kind # "blank"}

\* C17: for any corpus file and any positions of its corrupted lines,
\* total_documents is the number of lines that parse as JSON and skipped_lines
\* the number of non-blank lines that do not parse (over the lines consumed so
\* far, and in the reported stats over the whole file), so that their sum is
\* the number of non-blank lines.
BICountsMatchLines ==
    /\ bi_total_docs = Cardinality(BIParsed(BIRead))
    /\ bi_skipped_lines = Cardinality(BICorrupted(BIRead))
    /\ bi_pc = "done" =>
          /\ bi_stats.total_documents = Cardinality(BIParsed(BIAllLines))
          /\ bi_stats.skipped_lines = Cardinality(BICorrupted(BIAllLines))
          /\ bi_stats.total_documents + bi_stats.skipped_lines
                = Cardinality(BINonBlank(BIAllLines))

\* C18: build_index never aborts on a line that is not a well-formed record
\* (a headline-only record with a null body and JSON that is no object
\* included): the line is indexed or skipped and every later line of the file
\* is still ingested.
BINeverAborts ==
    /\ bi_pc # "aborted"
    /\ bi_pc = "done" => bi_line_no = Len(bi_corpus)

\* the line that became document d
BIIsDoc(line) == line.kind = "object" /\ line.body_type # "null"
BIDocLine(d) ==
    CHOOSE k \in BIRead :
        /\ BIIsDoc(bi_corpus[k])
        /\ Cardinality({j \in 1..(k - 1) : BIIsDoc(bi_corpus[j])}) = d
BIDocIds == 0..(bi_total_docs - 1)

\* document d has the length and the postings of the whitespace-separated
\* words of body
BIIndexedByWords(d, body) ==
    LET words == split(body)
    IN /\ bi_doc_lengths[str(d)] = Len(words)
       /\ \A n \in 1..Len(words) :
             /\ words[n] \in DOMAIN bi_inverted_index
             /\ str(d) \in DOMAIN bi_inverted_index[words[n]]
             /\ bi_inverted_index[words[n]][str(d)] =
                   Cardinality({k \in 1..Len(words) : words[k] = words[n]})

\* every character of body is a word character, a Bangla character or
\* whitespace, and for the english corpus none is an upper-case letter
BIPlain(body, language) ==
    \A k \in 1..Len(body) :
        /\ IsWordChar(body[k]) \/ IsSpace(body[k]) \/ IsBangla(body[k])
        /\ language = "english" => lower(body[k]) = body[k]

\* C19 as stated: a document written by a crawler sink as one JSON line and
\* re-read by build_index gets a length equal to the number of
\* whitespace-separated words of its body, and each distinct word has a
\* posting for the document whose frequency is its number of occurrences.
BIRoundTripWords ==
    \A d \in BIDocIds : \A body \in BIBodies :
        bi_corpus[BIDocLine(d)] = BISinkLine(body) => BIIndexedByWords(d, body)

\* C19, amended: the same for a body made of word characters, Bangla
\* characters and whitespace only, without upper-case letters when the
\* language is english.
BIRoundTripPlainWords ==
    \A d \in BIDocIds : \A body \in BIBodies :
        (bi_corpus[BIDocLine(d)] = BISinkLine(body) /\ BIPlain(body, bi_language))
            => BIIndexedByWords(d, body)

HelloWorld == <<"h","e","l","l","o"," ","w","o","r","l","d">>

\* C19 witness: the body "hello world", written by a sink after a corrupted
\* line, was indexed as document 0 with length 2 and frequency 1 for "hello"
\* and for "world".
BIHelloWorldWitness ==
    /\ bi_line_no = 2
    /\ bi_corpus[1].kind = "malformed"
    /\ bi_corpus[2] = BISinkLine(HelloWorld)
    /\ bi_doc_lengths["0"] = 2
    /\ bi_inverted_index[<<"h","e","l","l","o">>]["0"] = 1
    /\ bi_inverted_index[<<"w","o","r","l","d">>]["0"] = 1

\* the lines whose pass of the for loop has completed
BIProcessed == 1..(IF bi_pc = "aborted" THEN bi_line_no - 1 ELSE bi_line_no)

\* the tokens of the line that became document d
BITokensOf(d) ==
    LET line == bi_corpus[BIDocLine(d)]
    IN tokenize(IF line.body_type = "absent" THEN <<>> ELSE JsonUnescape(line.body),
                bi_language)

\* the distinct tokens of a list of tokens
BIDistinct(tokens) == {tokens[n] : n \in 1..Len(tokens)}

\* the frequencies of document doc_id summed over the terms of `terms`
RECURSIVE BIFrequencies(_, _)
BIFrequencies(doc_id, terms) ==
    IF terms = {} THEN 0
    ELSE LET t == CHOOSE x \in terms : TRUE
         IN (IF doc_id \in DOMAIN bi_inverted_index[t]
             THEN bi_inverted_index[t][doc_id] ELSE 0)
            + BIFrequencies(doc_id, terms \ {t})

\* C28: after any prefix of the corpus file the three outputs are mutually
\* consistent.  The document ids are the strings "0" .. str(total_docs - 1),
\* given in file order to the parsed lines of the prefix; doc_lengths has
\* total_docs entries; every document id of a posting list is a key of
\* doc_lengths; the frequencies of a document summed over all terms are its
\* doc_lengths entry; the terms are the distinct tokens of the documents, and
\* vocabulary_size is their number.
BIOutputsConsistent ==
    /\ DOMAIN bi_doc_lengths = {str(d) : d \in BIDocIds}
    /\ Cardinality(DOMAIN bi_doc_lengths) = bi_total_docs
    /\ bi_total_docs = Cardinality(BIParsed(BIProcessed))
    /\ \A d \in BIDocIds :
          /\ BIDocLine(d) \in BIParsed(BIProcessed)
          /\ bi_doc_lengths[str(d)] = Len(BITokensOf(d))
          /\ BIFrequencies(str(d), DOMAIN bi_inverted_index) = bi_doc_lengths[str(d)]
    /\ \A t \in DOMAIN bi_inverted_index :
          /\ DOMAIN bi_inverted_index[t] # {}
          /\ DOMAIN bi_inverted_index[t] \subseteq DOMAIN bi_doc_lengths
    /\ DOMAIN bi_inverted_index = UNION {BIDistinct(BITokensOf(d)) : d \in BIDocIds}
    /\ bi_pc = "done" =>
          /\ bi_stats.total_documents = bi_total_docs
          /\ bi_stats.vocabulary_size = Cardinality(DOMAIN bi_inverted_index)

\* C28 witness: build_index has returned for a file of two documents that
\* share a term, with a corrupted line between them
BITwoDocsWitness ==
    /\ bi_pc = "done"
    /\ bi_total_docs = 2
    /\ bi_corpus[2].kind = "malformed"
    /\ \E t \in DOMAIN bi_inverted_index : DOMAIN bi_inverted_index[t] = {"0", "1"}
    /\ bi_stats.vocabulary_size = 2

----------------------------------------------------------------------------
(* DailySunCrawler and ProthomAloBangladeshSpider: pagination properties *)

\* the AJAX loop of one category, lines 202-270
DSInAjaxLoop(pc) ==
    pc \in {"ajax_check", "ajax_wait", "ajax_iter", "ajax_detail", "ajax_end"}

\* C23: within one category the AJAX calls carry page 1, 2, 3, ..., one more
\* per call, and the lastID of every call is the cursor that discovery scraped
\* from the landing page ("None" when the page has none), the same in all
\* calls of the category.
DSAjaxPagesAndCursor ==
    /\ [](DSListInFlight => ds_last_id \in {"cursor", "None"})
    /\ [][(DSInAjaxLoop(ds_pc) /\ DSInAjaxLoop(ds_pc')) =>
             /\ ds_last_id' = ds_last_id
             /\ ds_page' = IF ds_pc = "ajax_end" /\ ds_pc' = "ajax_check"
                           THEN ds_page + 1 ELSE ds_page
       ]_vars


\* C24: API pagination stops at the fixed maximum.  A step that issues an API
\* list request leaves items_seen below max_items, and the offset of the
\* request is not greater than max_items.
PAStopsAtMax ==
    [][\A o \in pa_api' \ pa_api : pa_items_seen' < max_items /\ o <= max_items]_vars


\* C25: the API list requests form a single chain.  At most one list request
\* is outstanding; self.offset is limit times the number of list requests
\* issued so far, and the request outstanding is the last one issued; a step
\* issues at most one list request, the one for the next multiple of limit,
\* and only when no other list request stays outstanding.  Article callbacks
\* neither issue a list request nor move the offset.
PASingleChain ==
    /\ [](/\ Cardinality(pa_api) <= 1
          /\ pa_offset % limit = 0
          /\ pa_api \subseteq {pa_offset - limit})
    /\ [][IF pa_api' \ pa_api = {}
          THEN pa_offset' = pa_offset
          ELSE /\ pa_api' = {pa_offset}
               /\ pa_offset' = pa_offset + limit
       ]_vars

\* C25 witness: the third list request (k = 2) is outstanding while an article
\* request is outstanding too and an article callback has already run
PAThirdRequestWitness ==
    /\ pa_api = {2 * limit}
    /\ pa_articles # {}
    /\ \E i \in 1..Len(pa_feed) : pa_feed[i].content_type = "full-article"

----------------------------------------------------------------------------
Progs == {"NA", "DS", "KK", "PA", "FU", "BI"}

Init == /\ prog \in Progs
        /\ NAInit(prog = "NA")
        /\ DSInit(prog = "DS")
        /\ KKInit(prog = "KK")
        /\ PAInit(prog = "PA")
        /\ FUInit
        /\ BIInit(prog = "BI")

Next == NANext \/ DSNext \/ KKNext \/ PANext \/ FUNext \/ BINext

Spec == Init /\ [][Next]_vars

\* one crawler at a time
InitNA == Init /\ prog = "NA"
SpecNA == InitNA /\ [][NANext]_vars

\* NewAgeBDCrawler with its scheduling: the event loop resumes a task that can
\* run, every session.get returns or raises within its timeout (line 49) and
\* every asyncio.sleep ends (lines 54 and 63), so a step that stays possible is
\* taken
SpecNAFair == InitNA /\ [][NANext]_vars /\ WF_vars(NANext)

InitDS == Init /\ prog = "DS"
SpecDS == InitDS /\ [][DSNext]_vars

InitKK == Init /\ prog = "KK"
SpecKK == InitKK /\ [][KKNext]_vars

InitPA == Init /\ prog = "PA"
SpecPA == InitPA /\ [][PANext]_vars

InitFU == Init /\ prog = "FU"
SpecFU == InitFU /\ [][FUNext]_vars

InitBI == Init /\ prog = "BI"
SpecBI == InitBI /\ [][BINext]_vars

\* the three crawlers that write their own output file
InitSink == Init /\ prog \in {"NA", "DS", "KK"}
NextSink == NANext \/ DSNext \/ KKNext
SpecSink == InitSink /\ [][NextSink]_vars

\* the three crawlers that paginate
InitPag == Init /\ prog \in {"DS", "KK", "PA"}
NextPag == DSNext \/ KKNext \/ PANext
SpecPag == InitPag /\ [][NextPag]_vars

\* the two sequential crawlers
InitSeq == Init /\ prog \in {"DS", "KK"}
NextSeq == DSNext \/ KKNext
SpecSeq == InitSeq /\ [][NextSeq]_vars

====
